---- MODULE Spec2Model ----
(***************************************************************************)
(* State-machine model of nxapi's authentication and token lifecycle:      *)
(*   - CoralApi (fetch, getWebServiceToken, renewToken,                     *)
(*     loginWithSessionToken) with its single-flight token renewal;         *)
(*   - NintendoAccountSessionAuthorisation.getSessionToken.                 *)
(* Suspension points are the awaits of the source; everything between two  *)
(* awaits is one atomic step, as on a JavaScript event loop.               *)
(***************************************************************************)
EXTENDS Integers, Sequences, FiniteSets, TLC

\* ------------------------------------------------------------------ bounds
NumCallers == 2
MaxFlowCalls == 3

Callers == 1..NumCallers
\* every call invokes onTokenExpired at most once, so promise ids fit here
Promises == 1..NumCallers

VARIABLES
    login,           \* the loginWithSessionToken invocation that precedes the client
    created,         \* whether the CoralApi instance exists
    token,           \* CoralApi.token
    tokenBy,         \* what wrote token last: the constructor, a then handler, renewToken
    renewToken,      \* CoralApi._renewToken: 0 is null, else a promise id
    onTokenExpired,  \* whether CoralApi.onTokenExpired is set (non-null)
    promise,         \* the promises onTokenExpired(..).then(..).finally(..)
    call,            \* one record per logical caller (an async invocation)
    renewCalls,      \* number of invocations of onTokenExpired so far
    cleared,         \* number of times a finally handler reset _renewToken
    minted,          \* number of credentials the service has issued so far
    result,          \* NintendoAccountSessionAuthorisation.result (set: not null)
    exchange,        \* the getNintendoAccountSessionToken call of the flow
    exchanges,       \* number of session_token requests the flow has sent
    flowCalls,       \* number of getSessionToken calls made on the flow
    flow,            \* the NintendoAccountSessionAuthorisation instance, once created
    last,            \* the latest getSessionToken call: arguments and outcome
    reply,           \* the latest response a request function received, and
                     \* what the function made of it
    menu,            \* the tray menu: the clicks on web service items so far
    command          \* the run of the webservicetoken command

FlowVars == <<flow, result, exchange, exchanges, flowCalls, last>>

\* everything that belongs to na.ts and to the error objects
NaVars == <<FlowVars, reply>>

\* the number of clicks on web service items that are followed
MaxClicks == 3

vars == <<login, created, token, tokenBy, renewToken, onTokenExpired, promise, call,
          renewCalls, cleared, minted, NaVars, menu, command>>

\* Every credential the service issues is a new one: the saved token the
\* client is constructed with is 0, the n-th credential issued later is n.
NextCred == minted + 1

\* ------------------------------------------------------- response shapes
Statuses == {"OK", "TOKEN_EXPIRED", "OTHER"}

\* A Coral HTTP response: transport status, and the envelope's status and
\* whether it has an errorMessage member.
\* The body of a non-200 response is read as text, so here only the status it
\* would decode to is kept.
Responses ==
    [http : {200}, status : Statuses, msg : BOOLEAN]
      \cup [http : {500}, status : {"TOKEN_EXPIRED", "OTHER"}, msg : {FALSE}]

\* A renewal promise: st is "cb" while onTokenExpired's promise is unsettled,
\* "then" once the then handler ran, "fin" once the finally handler ran,
\* "done" once the promise itself settled; res is how the callback settled;
\* epoch is the count of marker resets at its creation and pre, until it is
\* done, the token at its creation.
NoPromise == [st |-> "none", res |-> "none", pre |-> 0, epoch |-> 0]

\* kind/pc/attempt are the invocation's position; the other fields record
\* what it did: the number of requests it sent (nreq) and how it ended (out;
\* errStatus: the envelope status of the response thrown; join: the promise
\* whose rejection it rethrew). While the invocation runs it also holds the
\* promise it awaits, or awaited after its first attempt (join), the token
\* the request in flight carries (tok), the token its device proof is being
\* computed from (proof), the count of marker resets when its first attempt
\* made it renew (exp0), and, while it awaits that renewal, the transport
\* status and the status it compared with TOKEN_EXPIRED (trig).
NoTrigger == [http |-> 0, status |-> "none"]

IdleCall == [kind |-> "none", pc |-> "idle", attempt |-> 0, join |-> 0,
             nreq |-> 0, tok |-> -1, proof |-> -1,
             exp0 |-> -1, trig |-> NoTrigger, out |-> "none", errStatus |-> "none"]

\* crypto.randomBytes(n): the draws, here one byte each.
RandomBytes == {1, 2}

\* Buffer.toString('base64url') of a one-byte buffer: its two-character
\* base64url text (the characters need no escaping in a query string).
Base64Url(bytes) ==
    CASE bytes = 1 -> "AQ"
      [] bytes = 2 -> "Ag"
      [] bytes = 3 -> "Aw"
      [] bytes = 4 -> "BA"

\* crypto.createHash('sha256').update(text).digest(): a digest that differs
\* from text to text and from the bytes the text encodes.
Sha256(text) ==
    CASE text = "AQ" -> 3
      [] text = "Ag" -> 4

\* The flow before create() has run.
NoUrl == [state |-> "none", session_token_code_challenge |-> "none",
          session_token_code_challenge_method |-> "none"]
NoFlow == [created |-> FALSE, authorise_url |-> NoUrl, state |-> "none", verifier |-> "none"]

\* this.state and this.verifier of the flow, and the values a caller can
\* present. "undefined" and "null" stand for the JavaScript values.
FlowState == flow.state
FlowVerifier == flow.verifier
PresentedStates == {FlowState, "stateX", "undefined", "null"}
PresentedCodes == {"code1", "code2", "", "null"}
PresentedErrors == {"access_denied", ""}
PresentedDescriptions == {"denied", "", "null"}

\* The arguments of a getSessionToken call: the (code, state) form, or a
\* URLSearchParams with state, error, error_description and
\* session_token_code parameters (get() of an absent parameter is null;
\* error is has('error'), errorParam is get('error')).
FlowArgs ==
    [form : {"pair"}, code : PresentedCodes, state : PresentedStates, error : {FALSE},
     errorParam : {"null"}, description : {"null"}]
      \cup [form : {"params"}, code : PresentedCodes,
            state : PresentedStates \ {"undefined"}, error : {FALSE},
            errorParam : {"null"}, description : {"null"}]
      \cup [form : {"params"}, code : PresentedCodes,
            state : PresentedStates \ {"undefined"}, error : {TRUE},
            errorParam : PresentedErrors, description : PresentedDescriptions]

NullResult == [set |-> FALSE, state |-> "undefined", code |-> "null"]
NoArgs == [form |-> "none", code |-> "null", state |-> "undefined", error |-> FALSE,
           errorParam |-> "null", description |-> "null"]
\* the code and message of the NintendoAccountSessionAuthorisationError thrown
NoError == [code |-> "none", message |-> "none"]
NoExchange == [st |-> "none", code |-> "null", verifier |-> "null"]
NoCall == [args |-> NoArgs, out |-> "none", had |-> FALSE, err |-> NoError]

\* An error object: its class, the response and the body it was constructed
\* with, and its data (the decoded payload).
NoData == [error |-> "nodata", errorCode |-> FALSE]
NoBody == [form |-> "none", of |-> [http |-> 0, status |-> "none", msg |-> FALSE]]
NoErrorResponse == [class |-> "none", response |-> [http |-> 0, status |-> "none", msg |-> FALSE],
          body |-> NoBody, data |-> NoData]
\* an error's [ErrorDescriptionSymbol]: null, or an ErrorDescription
NoDescription == [key |-> "null", message |-> "null"]
NoFetchArgs == [auto |-> FALSE, attempt |-> 0, cb |-> FALSE]
NoReply == [fn |-> "none", args |-> NoFetchArgs,
            resp |-> [http |-> 0, status |-> "none", msg |-> FALSE],
            out |-> "none", err |-> NoErrorResponse, description |-> NoDescription]

\* A click on a web service item: the item, where an error was raised while
\* opening it (site) and its class (err), and whether the error was passed
\* to handleOpenWebServiceError; shown counts the calls of that function.
NoClick == [webservice |-> 0, site |-> "none", err |-> "none", handled |-> FALSE]
NoClicks == [clicks |-> 0, shown |-> 0, last |-> NoClick]

\* The loginWithSessionToken invocation: its position, the external calls it
\* has made so far (steps), whether the remote configuration has a coral
\* entry (config, read when it starts), and how it ended: out, and the
\* /v3/Account/Login response it received (resp), if any.
\* The webservicetoken command before it runs. Of a run the record keeps
\* argv.id, whether data says the membership is active, the list
\* getWebServices returned (fetched: it did return), the id passed to
\* getWebServiceToken and the number of such calls, and how the run ended.
NoCommand == [pc |-> "idle", id |-> "none", active |-> FALSE, fetched |-> FALSE,
              webservices |-> <<>>, requested |-> 0, calls |-> 0, out |-> "none"]

IdleLogin == [pc |-> "idle", out |-> "none", errStatus |-> "none", nreq |-> 0,
              steps |-> <<>>, config |-> TRUE,
              resp |-> [http |-> 0, status |-> "none", msg |-> FALSE]]

Init ==
    /\ login = IdleLogin
    /\ created = FALSE
    /\ token = 0
    /\ tokenBy = "constructor"
    /\ renewToken = 0
    /\ onTokenExpired = FALSE
    /\ promise = [p \in Promises |-> NoPromise]
    /\ call = [c \in Callers |-> IdleCall]
    /\ renewCalls = 0
    /\ cleared = 0
    /\ minted = 0
    /\ flow = NoFlow
    /\ result = NullResult
    /\ exchange = NoExchange
    /\ exchanges = 0
    /\ flowCalls = 0
    /\ last = NoCall
    /\ reply = NoReply
    /\ menu = NoClicks
    /\ command = NoCommand

\* ------------------------------------------------------- pure helpers

\* Variant: every request auto-renews.
AutoRenewAlways(kind) == TRUE

\* fetch's _autoRenewToken: true for public calls, false for the calls made
\* by getWebServiceToken and getToken (this.call(url, req, false)).
AutoRenew(kind) == kind = "fetch"

\* Variant: the callback is invoked and its promise stored whether or not a
\* renewal is pending.
RenewMarkerOverwrite(marker, fresh) == fresh

\* `this._renewToken ?? this.onTokenExpired.call(...)`: keep a pending
\* marker, otherwise install the fresh promise.
RenewMarker(marker, fresh) == IF marker # 0 THEN marker ELSE fresh

\* Variant: a token-expired envelope renews on every attempt.
FetchOutcomeEveryAttempt(resp, auto, attempt, cb) ==
    IF resp.http # 200 THEN "Non200"
    ELSE IF resp.status = "TOKEN_EXPIRED" /\ auto /\ cb THEN "renew"
    ELSE IF resp.msg THEN "ErrorMessage"
    ELSE IF resp.status # "OK" THEN "UnknownError"
    ELSE "ok"

\* Variant: the envelope is examined before the transport status.
FetchOutcomeBodyFirst(resp, auto, attempt, cb) ==
    IF resp.status = "TOKEN_EXPIRED" /\ auto /\ attempt = 0 /\ cb THEN "renew"
    ELSE IF resp.http # 200 THEN "Non200"
    ELSE IF resp.msg THEN "ErrorMessage"
    ELSE IF resp.status # "OK" THEN "UnknownError"
    ELSE "ok"

\* Variant: an errorMessage member is examined before the status.
FetchOutcomeMessageFirst(resp, auto, attempt, cb) ==
    IF resp.http # 200 THEN "Non200"
    ELSE IF resp.msg THEN "ErrorMessage"
    ELSE IF resp.status = "TOKEN_EXPIRED" /\ auto /\ attempt = 0 /\ cb THEN "renew"
    ELSE IF resp.status # "OK" THEN "UnknownError"
    ELSE "ok"

\* Variant: the renewal branch does not ask whether a callback is set.
FetchOutcomeWithoutCallback(resp, auto, attempt, cb) ==
    IF resp.http # 200 THEN "Non200"
    ELSE IF resp.status = "TOKEN_EXPIRED" /\ auto /\ attempt = 0 THEN "renew"
    ELSE IF resp.msg THEN "ErrorMessage"
    ELSE IF resp.status # "OK" THEN "UnknownError"
    ELSE "ok"

\* What fetch does with a response (after `await response.json()`).
FetchOutcome(resp, auto, attempt, cb) ==
    IF resp.http # 200 THEN "Non200"
    ELSE IF resp.status = "TOKEN_EXPIRED" /\ auto /\ attempt = 0 /\ cb THEN "renew"
    ELSE IF resp.msg THEN "ErrorMessage"
    ELSE IF resp.status # "OK" THEN "UnknownError"
    ELSE "ok"

\* Variant: the envelope's status is not examined.
LoginOutcomeNoStatus(resp) ==
    IF resp.http # 200 THEN "Non200"
    ELSE IF resp.msg THEN "ErrorMessage"
    ELSE "ok"

\* What loginWithSessionToken does with the /v3/Account/Login response.
LoginOutcome(resp) ==
    IF resp.http # 200 THEN "Non200"
    ELSE IF resp.msg THEN "ErrorMessage"
    ELSE IF resp.status # "OK" THEN "UnknownError"
    ELSE "ok"

\* err.data.status of the ErrorResponse fetch threw. For a 200 response data
\* is the decoded envelope; for a non-200 one it is whatever ErrorResponse
\* makes of the body text, so either the body's status or nothing.
ErrorResponseData(resp) ==
    IF resp.http = 200 THEN {resp.status} ELSE {resp.status, "undefined"}

\* Variant: the catch block renews whatever the attempt counter is.
GwstCatchEveryAttempt(outcome, dataStatus, attempt, cb) ==
    IF outcome # "ok" /\ dataStatus = "TOKEN_EXPIRED" /\ cb
    THEN "renew" ELSE outcome

\* getWebServiceToken's catch block: renew and retry, or rethrow.
GwstCatch(outcome, dataStatus, attempt, cb) ==
    IF outcome # "ok" /\ dataStatus = "TOKEN_EXPIRED" /\ attempt = 0 /\ cb
    THEN "renew" ELSE outcome

\* `.then(data => { if (data) this.setTokenWithSavedToken(data) })`
SetTokenWithSavedToken(cred) == cred

\* Variant: the then handler stores a token also when the callback returned
\* nothing.
ThenHandlerOnVoid(tok, res, cred) ==
    IF res # "fail" THEN SetTokenWithSavedToken(cred) ELSE tok

\* Variant: the then handler stores a token whatever the callback returned.
ThenHandlerAlways(tok, res, cred) == SetTokenWithSavedToken(cred)

ThenHandler(tok, res, cred) == IF res = "data" THEN SetTokenWithSavedToken(cred) ELSE tok

\* Variant: the finally handler leaves the marker as it is.
FinallyHandlerKeep(marker) == marker

\* `.finally(() => { this._renewToken = null })`
FinallyHandler(marker) == 0

\* node-fetch is called with 'Authorization': 'Bearer ' + this.token
SendRequest(r, tok) ==
    [r EXCEPT !.pc = "net", !.nreq = @ + 1, !.tok = tok, !.proof = -1]

\* Variant: the request is sent without awaiting the pending renewal.
FetchEnterNoWait(r, marker, tok, auto) == SendRequest(r, tok)

\* The head of fetch: wait for a pending renewal when auto-renewing,
\* otherwise send at once.
FetchEnter(r, marker, tok, auto) ==
    IF marker # 0 /\ auto
    THEN [r EXCEPT !.pc = "await", !.join = marker]
    ELSE SendRequest(r, tok)

\* f(this.token, HashMethod.WEB_SERVICE, ...) is started
StartF(r, tok) == [r EXCEPT !.pc = "f", !.proof = tok]

\* The head of getWebServiceToken: `await this._renewToken`
GwstEnter(r, marker) ==
    IF marker # 0
    THEN [r EXCEPT !.pc = "await", !.join = marker]
    ELSE [r EXCEPT !.pc = "tick"]

NoResponse == [http |-> 0, status |-> "none", msg |-> FALSE]

\* The error thrown keeps the response; of its envelope (decoded for a 200
\* response only) the record keeps whether it said TOKEN_EXPIRED.
Throw(r, err, resp) ==
    [r EXCEPT !.pc = "done", !.out = err,
              !.errStatus = IF resp.http = 200 /\ resp.status = "TOKEN_EXPIRED"
                            THEN "TOKEN_EXPIRED" ELSE "none",
              !.attempt = 0,
              !.tok = -1, !.proof = -1, !.exp0 = -1, !.trig = NoTrigger,
              !.join = IF err = "RenewFailed" THEN @ ELSE 0]


Return(r) ==
    [r EXCEPT !.pc = "done", !.out = "ok", !.attempt = 0,
              !.tok = -1, !.proof = -1, !.exp0 = -1,
              !.trig = NoTrigger, !.join = 0]

\* Variant: the caller is not resumed when the promise settles.
ResumeNever(r, res, tok) == r

\* Variant: the rejection of the awaited promise is ignored.
ResumeIgnoringFailure(r, res, tok) ==
    LET s == [r EXCEPT !.trig = NoTrigger, !.join = IF r.attempt = 0 THEN 0 ELSE @]
    IN  IF r.kind = "fetch" THEN SendRequest(s, tok) ELSE StartF(s, tok)

\* A caller resumes from `await this._renewToken` once the promise settled.
Resume(r, res, tok) ==
    LET s == [r EXCEPT !.trig = NoTrigger, !.join = IF r.attempt = 0 THEN 0 ELSE @]
    IN  IF res = "fail" THEN Throw(r, "RenewFailed", NoResponse)
        ELSE IF r.kind = "fetch" THEN SendRequest(s, tok)
        ELSE StartF(s, tok)

LoginThrow(l, err, resp) ==
    [l EXCEPT !.pc = "done", !.out = err, !.resp = resp,
              !.errStatus = IF resp.http = 200 THEN resp.status ELSE "none"]

LoginReturn(l, resp) == [l EXCEPT !.pc = "done", !.out = "ok", !.resp = resp]

\* ------------------------------------------------------------ actions

ClientVars == <<token, tokenBy, renewToken, onTokenExpired, promise, call, renewCalls, cleared, minted>>

\* Variant: the configuration is looked at after the identity-token
\* exchange was started.
LoginEnterLateCheck(l, config) ==
    LET n == [l EXCEPT !.config = config, !.steps = Append(@, "nat")]
    IN  IF config THEN [n EXCEPT !.pc = "nat"]
        ELSE LoginThrow(n, "ConfigError", NoResponse)

\* The head of loginWithSessionToken: `if (!config) throw new Error(...)`,
\* then getNintendoAccountToken is called.
LoginEnter(l, config) ==
    LET n == [l EXCEPT !.config = config]
    IN  IF config THEN [n EXCEPT !.pc = "nat", !.steps = Append(@, "nat")]
        ELSE LoginThrow(n, "ConfigError", NoResponse)

\* loginWithSessionToken(token): the remote configuration is checked first
StartLogin ==
    /\ ~created /\ login.pc = "idle"
    /\ \E config \in BOOLEAN : login' = LoginEnter(login, config)
    /\ UNCHANGED <<created, ClientVars, NaVars, menu, command>>

\* getNintendoAccountToken settles; getNintendoAccountUser is called
LoginNaToken ==
    /\ login.pc = "nat"
    /\ \E ok \in BOOLEAN :
         login' = IF ok THEN [login EXCEPT !.pc = "user", !.steps = Append(@, "user")]
                  ELSE LoginThrow(login, "NaError", NoResponse)
    /\ UNCHANGED <<created, ClientVars, NaVars, menu, command>>

\* getNintendoAccountUser settles; f is called
LoginNaUser ==
    /\ login.pc = "user"
    /\ \E ok \in BOOLEAN :
         login' = IF ok THEN [login EXCEPT !.pc = "f", !.steps = Append(@, "f")]
                  ELSE LoginThrow(login, "UserError", NoResponse)
    /\ UNCHANGED <<created, ClientVars, NaVars, menu, command>>

\* f settles; the /v3/Account/Login request is sent
LoginF ==
    /\ login.pc = "f"
    /\ \E ok \in BOOLEAN :
         login' = IF ok THEN [login EXCEPT !.pc = "net", !.nreq = @ + 1,
                                           !.steps = Append(@, "net")]
                  ELSE LoginThrow(login, "FError", NoResponse)
    /\ UNCHANGED <<created, ClientVars, NaVars, menu, command>>

\* The response to the /v3/Account/Login request arrives
LoginResponse ==
    /\ login.pc = "net"
    /\ \E resp \in Responses :
         LET o == LoginOutcome(resp)
         IN  login' = IF o = "ok" THEN LoginReturn(login, resp)
                      ELSE LoginThrow(login, o, resp)
    /\ UNCHANGED <<created, ClientVars, NaVars, menu, command>>

\* createWithSavedToken(data): from a bundle a login just returned, or from
\* one saved earlier. The owner then sets onTokenExpired or leaves it null.
CreateWithSavedToken ==
    /\ ~created
    /\ login.pc = "idle" \/ (login.pc = "done" /\ login.out = "ok")
    /\ created' = TRUE
    /\ login' = IdleLogin
    /\ token' = 0
    /\ tokenBy' = "constructor"
    /\ onTokenExpired' \in BOOLEAN
    /\ UNCHANGED <<renewToken, promise, call, renewCalls, cleared, minted, NaVars, menu, command>>

CanStart(c) ==
    /\ created
    /\ call[c].pc = "idle"
    /\ \A d \in Callers : d < c => call[d].pc # "idle"   \* callers are interchangeable

Step(c, r) ==
    /\ call' = [call EXCEPT ![c] = r]
    /\ UNCHANGED <<login, created, token, tokenBy, renewToken, onTokenExpired, promise,
                   renewCalls, cleared, minted, NaVars, menu, command>>

\* fetch(url, method, body, headers) with _autoRenewToken = true
StartFetch(c) ==
    /\ CanStart(c)
    /\ Step(c, FetchEnter([call[c] EXCEPT !.kind = "fetch"], renewToken, token, TRUE))

\* getWebServiceToken(id)
StartGetWebServiceToken(c) ==
    /\ CanStart(c)
    /\ Step(c, GwstEnter([call[c] EXCEPT !.kind = "gwst"], renewToken))

\* `await this._renewToken` of a null marker takes one tick, then f starts
GwstTick(c) ==
    /\ call[c].pc = "tick"
    /\ Step(c, StartF(call[c], token))

\* renewToken(token, user): getToken starts with getNintendoAccountToken
StartRenewToken(c) ==
    /\ CanStart(c)
    /\ Step(c, [call[c] EXCEPT !.kind = "renew", !.pc = "nat"])

\* getToken: getNintendoAccountToken settles; f is called with the id token
NaTokenReturn(c) ==
    /\ call[c].pc = "nat"
    /\ \E ok \in BOOLEAN :
         Step(c, IF ok THEN [call[c] EXCEPT !.pc = "f"]
                 ELSE Throw(call[c], "NaError", NoResponse))

\* f(...) settles; on success the service request is sent in the same step
\* (this.call(..., false) runs synchronously up to node-fetch).
FReturn(c) ==
    /\ call[c].pc = "f"
    /\ \E ok \in BOOLEAN :
         Step(c, IF ok THEN FetchEnter(call[c], renewToken, token, AutoRenew(call[c].kind))
                 ELSE Throw(call[c], "FError", NoResponse))

\* The caller saw TOKEN_EXPIRED on its first attempt: single-flight renewal,
\* then the recursive call with _attempt + 1, which runs up to its await.
Renew(c, http, status) ==
    LET fresh  == renewCalls + 1
        marker == RenewMarker(renewToken, fresh)
        leader == marker = fresh
        r      == [call[c] EXCEPT !.attempt = @ + 1, !.exp0 = cleared,
                                  !.trig = [http |-> http, status |-> status],
                                  !.tok = -1]
    IN  /\ renewToken' = marker
        /\ renewCalls' = IF leader THEN fresh ELSE renewCalls
        /\ promise' = IF leader
                      THEN [promise EXCEPT ![fresh] =
                              [st |-> "cb", res |-> "none", pre |-> token,
                               epoch |-> cleared]]
                      ELSE promise
        /\ call' = [call EXCEPT ![c] =
                      IF r.kind = "fetch" THEN FetchEnter(r, marker, token, TRUE)
                      ELSE GwstEnter(r, marker)]
        /\ UNCHANGED <<login, created, token, tokenBy, onTokenExpired, cleared, minted, NaVars, menu, command>>

\* The response to a fetch(..., _autoRenewToken = true) request arrives
FetchResponse(c) ==
    /\ call[c].pc = "net" /\ call[c].kind = "fetch"
    /\ \E resp \in Responses :
         LET o == FetchOutcome(resp, TRUE, call[c].attempt, onTokenExpired)
         IN  IF o = "renew" THEN Renew(c, resp.http, resp.status)
             ELSE IF o = "ok" THEN Step(c, Return(call[c]))
             ELSE Step(c, Throw(call[c], o, resp))

\* The response to getWebServiceToken's request arrives
GwstResponse(c) ==
    /\ call[c].pc = "net" /\ call[c].kind = "gwst"
    /\ \E resp \in Responses : \E dataStatus \in ErrorResponseData(resp) :
         LET o == GwstCatch(FetchOutcome(resp, FALSE, 0, onTokenExpired),
                            dataStatus, call[c].attempt, onTokenExpired)
         IN  IF o = "renew" THEN Renew(c, resp.http, dataStatus)
             ELSE IF o = "ok" THEN Step(c, Return(call[c]))
             ELSE Step(c, Throw(call[c], o, resp))

\* The response to getToken's /v3/Account/GetToken request arrives;
\* renewToken then stores the credential it carries.
RenewTokenResponse(c) ==
    /\ call[c].pc = "net" /\ call[c].kind = "renew"
    /\ \E resp \in Responses :
         LET o == FetchOutcome(resp, FALSE, 0, onTokenExpired)
         IN  /\ call' = [call EXCEPT ![c] =
                           IF o = "ok" THEN Return(@) ELSE Throw(@, o, resp)]
             /\ token' = IF o = "ok" THEN SetTokenWithSavedToken(NextCred) ELSE token
             /\ minted' = IF o = "ok" THEN NextCred ELSE minted
             /\ tokenBy' = IF o = "ok" THEN "renewToken" ELSE tokenBy
    /\ UNCHANGED <<login, created, renewToken, onTokenExpired, promise, renewCalls,
                   cleared, NaVars, menu, command>>

\* onTokenExpired's promise settles and the then handler runs
RenewSettle(p) ==
    /\ promise[p].st = "cb"
    /\ \E res \in {"data", "void", "fail"} :
         /\ token' = ThenHandler(token, res, NextCred)
         /\ minted' = IF res = "data" THEN NextCred ELSE minted
         /\ tokenBy' = IF res = "data" THEN "then" ELSE tokenBy
         /\ promise' = [promise EXCEPT ![p] = [@ EXCEPT !.st = "then", !.res = res]]
    /\ UNCHANGED <<login, created, renewToken, onTokenExpired, call, renewCalls,
                   cleared, NaVars, menu, command>>

\* the finally handler runs
RenewFinally(p) ==
    /\ promise[p].st = "then"
    /\ renewToken' = FinallyHandler(renewToken)
    /\ cleared' = cleared + 1
    /\ promise' = [promise EXCEPT ![p] = [@ EXCEPT !.st = "fin"]]
    /\ UNCHANGED <<login, created, token, tokenBy, onTokenExpired, call, renewCalls, minted,
                   NaVars, menu, command>>

\* The promise stored in _renewToken settles: the callers awaiting it resume
\* one after the other with nothing in between.
PromiseSettle(p) ==
    /\ promise[p].st = "fin"
    /\ promise' = [promise EXCEPT ![p] = [@ EXCEPT !.st = "done", !.pre = 0]]
    /\ call' = [c \in Callers |->
                  IF call[c].pc = "await" /\ call[c].join = p
                  THEN Resume(call[c], promise[p].res, token)
                  ELSE call[c]]
    /\ UNCHANGED <<login, created, token, tokenBy, renewToken, onTokenExpired, renewCalls,
                   cleared, minted, NaVars, menu, command>>

Next ==
    \/ StartLogin
    \/ LoginNaToken
    \/ LoginNaUser
    \/ LoginF
    \/ LoginResponse
    \/ CreateWithSavedToken
    \/ \E c \in Callers : StartFetch(c)
    \/ \E c \in Callers : StartGetWebServiceToken(c)
    \/ \E c \in Callers : GwstTick(c)
    \/ \E c \in Callers : StartRenewToken(c)
    \/ \E c \in Callers : NaTokenReturn(c)
    \/ \E c \in Callers : FReturn(c)
    \/ \E c \in Callers : FetchResponse(c)
    \/ \E c \in Callers : GwstResponse(c)
    \/ \E c \in Callers : RenewTokenResponse(c)
    \/ \E p \in Promises : RenewSettle(p)
    \/ \E p \in Promises : RenewFinally(p)
    \/ \E p \in Promises : PromiseSettle(p)

Spec == Init /\ [][Next]_vars

\* A request, an f call or an invocation of onTokenExpired settles, or the
\* event loop runs a handler or continuation that is ready.
Settle ==
    \/ \E c \in Callers :
          \/ GwstTick(c)
          \/ NaTokenReturn(c)
          \/ FReturn(c)
          \/ FetchResponse(c)
          \/ GwstResponse(c)
          \/ RenewTokenResponse(c)
    \/ \E p \in Promises :
          \/ RenewSettle(p)
          \/ RenewFinally(p)
          \/ PromiseSettle(p)

\* Whatever is outstanding eventually settles: as long as something is
\* outstanding, one of these steps is taken.
Settling == WF_vars(Settle)

LiveSpec == Spec /\ Settling

\* ------------------------------------- NintendoAccountSessionAuthorisation

\* Variant: the completed check is absent.
GetSessionTokenOutcomeUnchecked(res, a) ==
    IF a.form = "params" /\ a.state # FlowState THEN "InvalidState"
    ELSE IF a.form = "params" /\ a.error THEN "AuthorisationError"
    ELSE IF a.form = "pair" /\ a.state # "undefined" /\ a.state # FlowState
         THEN "InvalidState"
    ELSE IF a.code = "null" \/ a.code = "" THEN "InvalidCode"
    ELSE "exchange"

\* Variant: the code check lacks `|| !code`, so an empty code passes.
GetSessionTokenOutcomeEmptyCode(res, a) ==
    IF res.set THEN "AlreadyCompleted"
    ELSE IF a.form = "params" /\ a.state # FlowState THEN "InvalidState"
    ELSE IF a.form = "params" /\ a.error THEN "AuthorisationError"
    ELSE IF a.form = "pair" /\ a.state # "undefined" /\ a.state # FlowState
         THEN "InvalidState"
    ELSE IF a.code = "null" THEN "InvalidCode"
    ELSE "exchange"

\* Variant: a null state is treated like an omitted one (!= null for
\* typeof state !== 'undefined').
GetSessionTokenOutcomeLooseState(res, a) ==
    IF res.set THEN "AlreadyCompleted"
    ELSE IF a.form = "params" /\ a.state \notin {FlowState, "null"} THEN "InvalidState"
    ELSE IF a.form = "params" /\ a.error THEN "AuthorisationError"
    ELSE IF a.form = "pair" /\ a.state \notin {"undefined", "null", FlowState}
         THEN "InvalidState"
    ELSE IF a.code = "null" \/ a.code = "" THEN "InvalidCode"
    ELSE "exchange"

\* The synchronous part of getSessionToken(code, state) / (params): the error
\* it throws, or "exchange" when it records result and calls
\* getNintendoAccountSessionToken.
GetSessionTokenOutcome(res, a) ==
    IF res.set THEN "AlreadyCompleted"
    ELSE IF a.form = "params" /\ a.state # FlowState THEN "InvalidState"
    ELSE IF a.form = "params" /\ a.error THEN "AuthorisationError"
    ELSE IF a.form = "pair" /\ a.state # "undefined" /\ a.state # FlowState
         THEN "InvalidState"
    ELSE IF a.code = "null" \/ a.code = "" THEN "InvalidCode"
    ELSE "exchange"

\* Variant: an empty parameter is replaced like an absent one (|| for ??).
FromSearchParamsOr(a) ==
    LET code == IF a.errorParam \in {"null", ""} THEN "unknown_error" ELSE a.errorParam
    IN  [code |-> code,
         message |-> IF a.description \in {"null", ""} THEN code ELSE a.description]

\* NintendoAccountSessionAuthorisationError.fromSearchParams(qs)
FromSearchParams(a) ==
    LET code == IF a.errorParam = "null" THEN "unknown_error" ELSE a.errorParam
    IN  [code |-> code,
         message |-> IF a.description = "null" THEN code ELSE a.description]

\* `let result_state = state`: the outer state argument, which the
\* URLSearchParams overload does not have (the inner const shadows it).
ResultState(a) == IF a.form = "pair" THEN a.state ELSE "undefined"

\* Variant: the result is not recorded before the exchange.
DefineResultLater(res, a) == res

\* Object.defineProperty(this, 'result', {value: {state: result_state, code},
\* writable: false})
DefineResult(res, a) == [set |-> TRUE, state |-> ResultState(a), code |-> a.code]

\* What getNintendoAccountSessionToken makes of the response.
\* The decoded body of a Nintendo Account response: the value of its error
\* member ("absent": it has none) and whether it has an errorCode member.
NaBodies == [error : {"absent", "invalid_grant", "invalid_request"}, errorCode : BOOLEAN]

SessionTokenResponses == [http : {200, 400}, body : NaBodies]

SessionTokenOutcome(resp) ==
    IF resp.http # 200 THEN "AuthErrorResponse"
    ELSE IF resp.body.error # "absent" THEN "AuthErrorResponse"
    ELSE IF resp.body.errorCode THEN "ErrorResponse"
    ELSE "ok"

\* Variant: the challenge is the verifier itself.
GenerateAuthDataPlain(stateBytes, verifierBytes) ==
    LET state == Base64Url(stateBytes)
        verifier == Base64Url(verifierBytes)
        challenge == verifier
    IN  [url |-> [state |-> state,
                  session_token_code_challenge |-> challenge,
                  session_token_code_challenge_method |-> "S256"],
         state |-> state, verifier |-> verifier, challenge |-> challenge]

\* generateAuthData, given the two random draws. Of the authorize URL the
\* record keeps the state and challenge parameters.
GenerateAuthData(stateBytes, verifierBytes) ==
    LET state == Base64Url(stateBytes)
        verifier == Base64Url(verifierBytes)
        challenge == Base64Url(Sha256(verifier))
    IN  [url |-> [state |-> state,
                  session_token_code_challenge |-> challenge,
                  session_token_code_challenge_method |-> "S256"],
         state |-> state, verifier |-> verifier, challenge |-> challenge]

\* new NintendoAccountSessionAuthorisation(client_id, scope, auth_data.url,
\* auth_data.state, auth_data.verifier, redirect_uri)
NewFlow(auth_data) ==
    [created |-> TRUE, authorise_url |-> auth_data.url, state |-> auth_data.state,
     verifier |-> auth_data.verifier]

\* NintendoAccountSessionAuthorisation.create
Create ==
    /\ ~flow.created
    /\ \E stateBytes, verifierBytes \in RandomBytes :
         flow' = NewFlow(GenerateAuthData(stateBytes, verifierBytes))
    /\ UNCHANGED <<login, created, ClientVars, result, exchange, exchanges, flowCalls,
                   last, reply, menu, command>>

\* getSessionToken is called
GetSessionToken ==
    /\ flow.created
    /\ flowCalls < MaxFlowCalls
    /\ \E a \in FlowArgs :
         LET o == GetSessionTokenOutcome(result, a)
         IN  /\ last' = [args |-> a, out |-> o, had |-> result.set,
                          err |-> IF o = "AuthorisationError"
                                  THEN FromSearchParams(a) ELSE NoError]
             /\ result' = IF o = "exchange"
                          THEN DefineResult(result, a)
                          ELSE result
             /\ exchange' = IF o = "exchange"
                            THEN [st |-> "inflight", code |-> a.code,
                                  verifier |-> FlowVerifier]
                            ELSE exchange
             /\ exchanges' = IF o = "exchange" THEN exchanges + 1 ELSE exchanges
    /\ flowCalls' = flowCalls + 1
    /\ UNCHANGED <<login, created, ClientVars, flow, reply, menu, command>>

\* The session_token request settles: a response, or a timeout/network error
SessionTokenSettle ==
    /\ exchange.st = "inflight"
    /\ \/ \E resp \in SessionTokenResponses :
            exchange' = [exchange EXCEPT !.st = SessionTokenOutcome(resp)]
       \/ exchange' = [exchange EXCEPT !.st = "Timeout"]
    /\ UNCHANGED <<login, created, ClientVars, flow, result, exchanges, flowCalls, last, reply, menu, command>>

FlowNext ==
    \/ Create
    \/ GetSessionToken
    \/ SessionTokenSettle

FlowSpec == Init /\ [][FlowNext]_vars

\* ------------------------------------------------ errors raised for a response

\* `await response.text()` and `await response.json()`: the body of resp, as
\* text or decoded.
Text(resp) == [form |-> "text", of |-> resp]
Json(resp) == [form |-> "json", of |-> resp]

\* new ErrorResponse(message, response, body) and its subclasses, as called
NewErrorResponse(class, resp, body, data) ==
    [class |-> class, response |-> resp, body |-> body, data |-> data]

\* ErrorResponse.fromResponse(response, message): reads the body as text and
\* constructs the error with the response and that text.
FromResponse(class, resp, data) == NewErrorResponse(class, resp, Text(resp), data)

\* data of an error constructed with a decoded body is that body; constructed
\* with the body text it is the text decoded, or nothing if it does not decode.
NaErrorData(resp) == IF resp.http = 200 THEN {resp.body} ELSE {resp.body, NoData}

\* Variant: the error is constructed without the response.
FetchErrorWithoutResponse(resp, o, d) ==
    IF o = "Non200" THEN NewErrorResponse("ErrorResponse", NoErrorResponse.response, Text(resp), [status |-> d])
    ELSE IF o \in {"ErrorMessage", "UnknownError"}
    THEN NewErrorResponse("ErrorResponse", NoErrorResponse.response, Json(resp), [status |-> d])
    ELSE NoErrorResponse

\* The error fetch throws for outcome o of FetchOutcome.
FetchError(resp, o, d) ==
    IF o = "Non200" THEN NewErrorResponse("ErrorResponse", resp, Text(resp), [status |-> d])
    ELSE IF o \in {"ErrorMessage", "UnknownError"}
    THEN NewErrorResponse("ErrorResponse", resp, Json(resp), [status |-> d])
    ELSE NoErrorResponse

\* The error loginWithSessionToken throws for outcome o of LoginOutcome.
LoginError(resp, o, d) ==
    IF o = "Non200" THEN NewErrorResponse("ErrorResponse", resp, Text(resp), [status |-> d])
    ELSE IF o \in {"ErrorMessage", "UnknownError"}
    THEN NewErrorResponse("ErrorResponse", resp, Json(resp), [status |-> d])
    ELSE NoErrorResponse

\* The error getNintendoAccountSessionToken throws.
SessionTokenError(resp, d) ==
    IF resp.http # 200 THEN FromResponse("NintendoAccountAuthErrorResponse", resp, d)
    ELSE IF resp.body.error # "absent"
    THEN NewErrorResponse("NintendoAccountAuthErrorResponse", resp, Json(resp), d)
    ELSE IF resp.body.errorCode
    THEN NewErrorResponse("NintendoAccountErrorResponse", resp, Json(resp), d)
    ELSE NoErrorResponse

\* What getNintendoAccountToken makes of the response, and the error it throws.
NaTokenResponses == [http : {200, 400}, body : NaBodies]

NaTokenOutcome(resp) ==
    IF resp.http # 200 THEN "AuthErrorResponse"
    ELSE IF resp.body.error # "absent" THEN "AuthErrorResponse"
    ELSE IF resp.body.errorCode THEN "ErrorResponse"
    ELSE "ok"

NaTokenError(resp, d) ==
    IF resp.http # 200 THEN FromResponse("NintendoAccountAuthErrorResponse", resp, d)
    ELSE IF resp.body.error # "absent"
    THEN NewErrorResponse("NintendoAccountAuthErrorResponse", resp, Json(resp), d)
    ELSE IF resp.body.errorCode
    THEN NewErrorResponse("NintendoAccountErrorResponse", resp, Json(resp), d)
    ELSE NoErrorResponse

\* What getNintendoAccountUser makes of the response, and the error it throws.
\* The body is a NintendoAccountUser or a NintendoAccountError: it has no
\* error member.
NaUserResponses == [http : {200, 400}, body : {b \in NaBodies : b.error = "absent"}]

NaUserOutcome(resp) ==
    IF resp.http # 200 THEN "ErrorResponse"
    ELSE IF resp.body.errorCode THEN "ErrorResponse"
    ELSE "ok"

NaUserError(resp, d) ==
    IF resp.http # 200 THEN FromResponse("NintendoAccountErrorResponse", resp, d)
    ELSE IF resp.body.errorCode
    THEN NewErrorResponse("NintendoAccountErrorResponse", resp, Json(resp), d)
    ELSE NoErrorResponse

\* How a function ends on an outcome: it returns, throws, or (fetch) renews
\* and retries.
Ending(o) == IF o = "ok" THEN "return" ELSE IF o = "renew" THEN "renew" ELSE "throw"

\* Variant: every error member yields the description.
AuthErrorDescriptionAnyError(data) ==
    IF data.error \notin {"absent", "nodata"}
    THEN [key |-> "na.invalid_grant",
          message |-> "Your Nintendo Account session token has expired or was revoked. You need to sign in again."]
    ELSE NoDescription

\* NintendoAccountAuthErrorResponse's [ErrorDescriptionSymbol] getter, on
\* this.data (data?.error is undefined when data is).
AuthErrorDescription(data) ==
    IF data.error = "invalid_grant"
    THEN [key |-> "na.invalid_grant",
          message |-> "Your Nintendo Account session token has expired or was revoked. You need to sign in again."]
    ELSE NoDescription

\* The description an error carries: only NintendoAccountAuthErrorResponse
\* defines one.
DescriptionOf(err) ==
    IF err.class = "NintendoAccountAuthErrorResponse"
    THEN AuthErrorDescription(err.data)
    ELSE NoDescription

\* The reply of function fn to resp: how it ended, the error thrown and the
\* description that error carries.
Reply(fn, args, resp, o, err) ==
    [fn |-> fn, args |-> args, resp |-> resp, out |-> Ending(o), err |-> err,
     description |-> DescriptionOf(err)]

\* fetch receives a response. A second attempt is one fetch made itself, so
\* with _autoRenewToken set.
FetchReceives ==
    \E resp \in Responses, auto \in BOOLEAN, attempt \in {0, 1}, cb \in BOOLEAN :
      /\ attempt = 1 => auto
      /\ LET o == FetchOutcome(resp, auto, attempt, cb)
         IN  \E d \in ErrorResponseData(resp) :
               reply' = Reply("fetch", [auto |-> auto, attempt |-> attempt, cb |-> cb],
                              resp, o, FetchError(resp, o, d))
      /\ UNCHANGED <<login, created, ClientVars, FlowVars, menu, command>>

\* loginWithSessionToken receives the /v3/Account/Login response
LoginReceives ==
    \E resp \in Responses :
      /\ LET o == LoginOutcome(resp)
         IN  \E d \in ErrorResponseData(resp) :
               reply' = Reply("loginWithSessionToken", NoFetchArgs,
                              resp, o, LoginError(resp, o, d))
      /\ UNCHANGED <<login, created, ClientVars, FlowVars, menu, command>>

\* getNintendoAccountSessionToken receives a response
SessionTokenReceives ==
    \E resp \in SessionTokenResponses :
      /\ \E d \in NaErrorData(resp) :
            reply' = Reply("getNintendoAccountSessionToken", NoFetchArgs,
                           resp, SessionTokenOutcome(resp), SessionTokenError(resp, d))
      /\ UNCHANGED <<login, created, ClientVars, FlowVars, menu, command>>

\* getNintendoAccountToken receives a response
NaTokenReceives ==
    \E resp \in NaTokenResponses :
      /\ \E d \in NaErrorData(resp) :
            reply' = Reply("getNintendoAccountToken", NoFetchArgs,
                           resp, NaTokenOutcome(resp), NaTokenError(resp, d))
      /\ UNCHANGED <<login, created, ClientVars, FlowVars, menu, command>>

\* getNintendoAccountUser receives a response
NaUserReceives ==
    \E resp \in NaUserResponses :
      /\ \E d \in NaErrorData(resp) :
            reply' = Reply("getNintendoAccountUser", NoFetchArgs,
                           resp, NaUserOutcome(resp), NaUserError(resp, d))
      /\ UNCHANGED <<login, created, ClientVars, FlowVars, menu, command>>

ErrorNext ==
    \/ FetchReceives
    \/ LoginReceives
    \/ SessionTokenReceives
    \/ NaTokenReceives
    \/ NaUserReceives

ErrorSpec == Init /\ [][ErrorNext]_vars


\* ------------------------------------------------------- tray menu

\* The items of getWebServiceItems, and the errors that opening one can
\* raise: the two the menu names, an ErrorResponse and a transport failure.
WebServiceItems == {1, 2}
OpenErrors == {"WebServiceValidationError", "MembershipRequiredError",
               "ErrorResponse", "TypeError"}

\* MenuApp.openWebService's catch block: whether err is passed to
\* handleOpenWebServiceError.
OpenWebServiceCatch(err) ==
    IF err \notin {"WebServiceValidationError", "MembershipRequiredError"}
    THEN FALSE
    ELSE TRUE

\* The click handler of an item: users.get(token), then
\* this.openWebService(...); its own catch block passes on every error that
\* reaches it.
ClickHandler(webservice, site, err) ==
    [webservice |-> webservice, site |-> site, err |-> err,
     handled |-> IF site = "users.get" THEN TRUE
                 ELSE IF site = "openWebService" THEN OpenWebServiceCatch(err)
                 ELSE FALSE]

\* a web service item is clicked; opening it succeeds, or users.get or
\* openWebService raises an error
Click ==
    /\ menu.clicks < MaxClicks
    /\ \E w \in WebServiceItems :
         \/ menu' = [clicks |-> menu.clicks + 1, shown |-> menu.shown,
                      last |-> ClickHandler(w, "none", "none")]
         \/ \E site \in {"users.get", "openWebService"}, err \in OpenErrors :
               LET c == ClickHandler(w, site, err)
               IN  menu' = [clicks |-> menu.clicks + 1,
                            shown |-> IF c.handled THEN menu.shown + 1 ELSE menu.shown,
                            last |-> c]
    /\ UNCHANGED <<login, created, ClientVars, NaVars, command>>

MenuNext == Click

MenuSpec == Init /\ [][MenuNext]_vars


\* ------------------------------------------- the webservicetoken command

\* argv.id is a string: two that name a web service, one that names none,
\* and one that is numerically equal to an id without being its decimal form.
RequestedIds == {"1", "2", "3", "01"}

\* '' + w.id
IdToString(id) == IF id = 1 THEN "1" ELSE IF id = 2 THEN "2" ELSE "3"

\* customAttributes of a web service
AttributeLists ==
    { <<>>,
      <<[attrKey |-> "verifyMembership", attrValue |-> "true"]>>,
      <<[attrKey |-> "verifyMembership", attrValue |-> "false"]>>,
      <<[attrKey |-> "appNavigationBarBgColor", attrValue |-> "true"]>>,
      <<[attrKey |-> "appNavigationBarBgColor", attrValue |-> "true"],
        [attrKey |-> "verifyMembership", attrValue |-> "true"]>> }

WebServices == [id : {1, 2}, customAttributes : AttributeLists]

\* what nso.getWebServices() returns: up to two web services
WebServiceLists ==
    {<<>>} \cup {<<w>> : w \in WebServices}
           \cup {<<w, v>> : w \in WebServices, v \in WebServices}

\* find() found nothing
NoWebService == [id |-> 0, customAttributes |-> <<>>]
NoAttribute == [attrKey |-> "undefined", attrValue |-> "undefined"]

\* webservices.find(w => '' + w.id === argv.id): the first match
FindWebService(webservices, id) ==
    LET hits == {i \in 1..Len(webservices) : IdToString(webservices[i].id) = id}
    IN  IF hits = {} THEN NoWebService
        ELSE webservices[CHOOSE i \in hits : \A j \in hits : i <= j]

\* webservice.customAttributes.find(a => a.attrKey === 'verifyMembership')
FindVerifyMembership(attrs) ==
    LET hits == {i \in 1..Len(attrs) : attrs[i].attrKey = "verifyMembership"}
    IN  IF hits = {} THEN NoAttribute
        ELSE attrs[CHOOSE i \in hits : \A j \in hits : i <= j]

\* Variant: the membership is never verified.
VerifyMembershipNever(webservice) == FALSE

\* verifymembership?.attrValue === 'true'
VerifyMembership(webservice) ==
    FindVerifyMembership(webservice.customAttributes).attrValue = "true"

\* checkMembershipActive(data): passes when the membership of the user is
\* active and throws a MembershipRequiredError otherwise.
CheckMembershipActive(active) == active

\* The handler from the moment the Promise.all settles to its next await:
\* find the web service, verify the membership, call getWebServiceToken.
HandlerAfterLists(cmd, webservices) ==
    LET webservice == FindWebService(webservices, cmd.id)
        got == [cmd EXCEPT !.fetched = TRUE, !.webservices = webservices]
    IN  IF webservice = NoWebService
        THEN [got EXCEPT !.pc = "done", !.out = "Invalid web service"]
        ELSE IF VerifyMembership(webservice) /\ ~CheckMembershipActive(cmd.active)
        THEN [got EXCEPT !.pc = "done", !.out = "MembershipRequiredError"]
        ELSE [got EXCEPT !.pc = "getWebServiceToken", !.requested = webservice.id,
                         !.calls = @ + 1]

CommandStep(cmd) ==
    /\ command' = cmd
    /\ UNCHANGED <<login, created, ClientVars, NaVars, menu>>

\* nxapi nso webservicetoken <id>: the handler starts and awaits getToken
RunCommand ==
    /\ command.pc = "idle"
    /\ \E id \in RequestedIds :
         CommandStep([command EXCEPT !.pc = "getToken", !.id = id])

\* getToken(storage, token, proxy) settles: {nso, data}, or an error
CommandGetToken ==
    /\ command.pc = "getToken"
    /\ \/ \E active \in BOOLEAN :
            CommandStep([command EXCEPT !.pc = "lists", !.active = active])
       \/ CommandStep([command EXCEPT !.pc = "done", !.out = "ErrorResponse"])

\* the Promise.all of getWebServices, getAnnouncements and the others
\* settles: one of them failed, or the handler goes on with the list
CommandLists ==
    /\ command.pc = "lists"
    /\ \/ \E webservices \in WebServiceLists :
            CommandStep(HandlerAfterLists(command, webservices))
       \/ CommandStep([command EXCEPT !.pc = "done", !.out = "ErrorResponse"])

\* nso.getWebServiceToken(webservice.id) settles; the token is printed
CommandWebServiceToken ==
    /\ command.pc = "getWebServiceToken"
    /\ \E out \in {"ok", "ErrorResponse"} :
         CommandStep([command EXCEPT !.pc = "done", !.out = out])

CommandNext ==
    \/ RunCommand
    \/ CommandGetToken
    \/ CommandLists
    \/ CommandWebServiceToken

CommandSpec == Init /\ [][CommandNext]_vars

\* ====================================================================
\* Properties
\* ====================================================================

\* The callers whose first attempt saw TOKEN_EXPIRED while the marker had been
\* reset e times, and that have not finished yet.
Observers(e) == {c \in Callers : call[c].attempt = 1 /\ call[c].exp0 = e}

Created(e) == {p \in Promises : promise[p].st # "none" /\ promise[p].epoch = e}

InFlight == {p \in Promises : promise[p].st = "cb"}

\* C2: at most one invocation of onTokenExpired is in flight at any time; the
\* marker names it from the step that invokes it until its finally handler
\* runs, and every caller awaiting a renewal awaits a promise that was made.
C2_OneRenewalInFlight ==
    /\ Cardinality(InFlight) <= 1
    /\ \A p \in Promises : promise[p].st \in {"cb", "then"} <=> renewToken = p
    /\ renewCalls <= cleared + 1
    /\ \A c \in Callers :
          call[c].pc = "await" =>
              /\ call[c].join \in Promises
              /\ promise[call[c].join].st \in {"cb", "then", "fin"}

\* A fetch caller and a getWebServiceToken caller both saw token-expired and
\* await the one callback invocation that is in flight.
C2_Witness ==
    /\ InFlight = {1}
    /\ \E c, d \in Callers :
          /\ call[c].kind = "fetch" /\ call[d].kind = "gwst"
          /\ \A x \in {c, d} :
                call[x].pc = "await" /\ call[x].attempt = 1 /\ call[x].join = 1

\* What the response to the retried request of fetch caller c does.
C3_SecondResponse(c) ==
    (/\ call[c].kind = "fetch" /\ call[c].pc = "net" /\ call[c].attempt = 1
     /\ call'[c] # call[c])
    => /\ call'[c].pc = "done"
       /\ call'[c].nreq = call[c].nreq
       /\ renewCalls' = renewCalls
       /\ renewToken' = renewToken
       /\ promise' = promise

\* C3: a fetch call sends at most two requests; the response to its retried
\* request ends the call, whatever it says, with no further request and no
\* further invocation of onTokenExpired.
C3_FetchRetriesAtMostOnce ==
    [][\A c \in Callers :
          /\ call'[c].kind = "fetch" => call'[c].nreq <= 2 /\ call'[c].attempt <= 1
          /\ C3_SecondResponse(c)]_vars

\* A fetch call whose retried request was answered token-expired again ended
\* with that failure after two requests and one invocation of the callback.
C3_Witness ==
    /\ onTokenExpired
    /\ renewCalls = 1
    /\ \E c \in Callers :
          /\ call[c].kind = "fetch" /\ call[c].pc = "done"
          /\ call[c].out \in {"ErrorMessage", "UnknownError"}
          /\ call[c].errStatus = "TOKEN_EXPIRED"
          /\ call[c].nreq = 2

\* C4 as stated: once the callback has failed the token is the one the
\* client had when the renewal started.
C4_TokenIsPreRenewalValue ==
    \A p \in Promises :
        (promise[p].st = "then" /\ promise[p].res = "fail") => token = promise[p].pre

C4_Failed ==
    /\ \A c \in Callers :
          (call[c].pc = "done" /\ call[c].out = "RenewFailed")
          => /\ call[c].join \in Promises
             /\ promise[call[c].join].res = "fail"
             /\ call[c].nreq <= 1
    /\ \A p \in Promises :
          promise[p].res = "fail"
          => /\ \A c \in Callers :
                   call[c].join = p
                   => \/ call[c].pc = "await"
                      \/ call[c].pc = "done" /\ call[c].out = "RenewFailed"
             /\ promise[p].st = "done" => \A c \in Callers : call[c].join = p => call[c].pc = "done"
             /\ promise[p].st = "then" => token = promise[p].pre \/ tokenBy = "renewToken"

\* C4 (amended): when the callback fails, every caller awaiting that promise
\* ends with that failure without sending another request, and the step in
\* which the callback fails leaves the token as it is; the token differs from
\* the pre-renewal one only when renewToken stored a credential meanwhile.
C4_CallbackFailure ==
    /\ []C4_Failed
    /\ [][\A p \in Promises :
             (promise[p].res # "fail" /\ promise'[p].res = "fail")
             => token' = token /\ minted' = minted]_vars

\* The callback failed and two callers that awaited it ended with its failure.
C4_Witness ==
    \E p \in Promises :
        /\ promise[p].st = "done" /\ promise[p].res = "fail"
        /\ Cardinality({c \in Callers :
                          /\ call[c].pc = "done" /\ call[c].out = "RenewFailed"
                          /\ call[c].join = p}) >= 2

\* C5 as stated: while an invocation of the callback is pending the token is
\* the one the client had when it was invoked.
C5_TokenKeptWhilePending ==
    \A p \in Promises : promise[p].st = "cb" => token = promise[p].pre

C5_Issued ==
    /\ token \in 0..minted
    /\ \A c \in Callers : call[c].pc = "net" => call[c].tok \in 0..minted
    /\ \A c \in Callers : call[c].pc = "f" /\ call[c].kind = "gwst" =>
                             call[c].proof \in 0..minted

\* C5 (amended): the token is always a credential the client was constructed
\* with or was issued; it changes only in single steps, in which the then
\* handler of a callback that returned data, or renewToken, stores the newly
\* issued credential, and this can happen while a callback is pending; every
\* request carries a token that was current when it was sent.
C5_TokenChangesAtomically ==
    /\ []C5_Issued
    /\ [][/\ token' # token =>
               /\ token' = minted' /\ minted' = minted + 1
               /\ tokenBy' \in {"then", "renewToken"}
               /\ tokenBy' = "then" =>
                     \E p \in Promises :
                         /\ promise[p].st = "cb" /\ promise'[p].st = "then"
                         /\ promise'[p].res = "data"
          /\ \A c \in Callers :
               (call'[c].pc = "net" /\ call'[c].nreq # call[c].nreq)
               => call'[c].tok = token]_vars

\* The then handler stored the credential the callback returned and a retried
\* request carries it.
C5_Witness ==
    /\ tokenBy = "then" /\ token # 0
    /\ \E c \in Callers :
          call[c].pc = "net" /\ call[c].attempt = 1 /\ call[c].tok = token

\* What getWebServiceToken caller c may do in one step.
C6_Step(c) ==
    /\ call'[c].nreq <= 2 /\ call'[c].attempt <= 1
    \* a request is sent only when f has just returned a proof
    /\ call'[c].nreq # call[c].nreq => call[c].pc = "f" /\ call'[c].nreq = call[c].nreq + 1
    \* f is started after the await of the marker, from the token current then
    /\ (call'[c].pc = "f" /\ call[c].pc # "f")
       => call[c].pc \in {"tick", "await"} /\ call'[c].proof = token
    \* the first attempt's token-expired failure: join or start the renewal
    /\ call'[c].attempt # call[c].attempt /\ call'[c].pc # "done"
       => /\ call[c].attempt = 0 /\ call'[c].attempt = 1 /\ onTokenExpired
          /\ call[c].pc = "net" /\ call[c].nreq = 1
          /\ call'[c].trig.status = "TOKEN_EXPIRED"
          /\ call'[c].pc = "await" /\ call'[c].join = renewToken' /\ renewToken' # 0
          /\ renewToken # 0 => renewToken' = renewToken /\ renewCalls' = renewCalls
          /\ renewToken = 0 => renewCalls' = renewCalls + 1
    \* the response to the second attempt ends the call
    /\ (call[c].attempt = 1 /\ call[c].pc = "net" /\ call'[c] # call[c])
       => /\ call'[c].pc = "done"
          /\ renewCalls' = renewCalls /\ renewToken' = renewToken

\* C6: getWebServiceToken renews on a token-expired failure of its first
\* attempt only, through the marker it shares with fetch, and retries once
\* with attempt counter 1 and a proof computed after the renewal; the outcome
\* of the retry ends the call.
C6_WebServiceTokenRetry ==
    [][\A c \in Callers : call'[c].kind = "gwst" => C6_Step(c)]_vars

\* A getWebServiceToken call joined the renewal a fetch call had started, sent
\* its retry with a proof made from the renewed token, and was answered
\* token-expired again.
C6_Witness ==
    /\ renewCalls = 1 /\ tokenBy = "then"
    /\ \E c, d \in Callers :
          /\ call[c].kind = "gwst" /\ call[c].pc = "done"
          /\ call[c].errStatus = "TOKEN_EXPIRED" /\ call[c].nreq = 2
          /\ call[d].kind = "fetch" /\ call[d].nreq = 2

\* C7: a response with a non-200 status ends fetch with an error in that
\* step: no request is sent, onTokenExpired is not invoked, token, marker and
\* promises stay as they are; so a fetch call never renews on such a response.
C7_Non200RaisedImmediately ==
    /\ [](\A c \in Callers :
             (call[c].kind = "fetch" /\ call[c].attempt = 1 /\ call[c].pc = "await")
             => call[c].trig.http = 200)
    /\ [][\A c \in Callers :
             (/\ call[c].kind \in {"fetch", "renew"} /\ call[c].pc = "net"
              /\ call'[c].out = "Non200")
             => /\ call'[c].pc = "done" /\ call'[c].nreq = call[c].nreq
                /\ renewCalls' = renewCalls /\ token' = token
                /\ renewToken' = renewToken /\ promise' = promise]_vars

\* A fetch call on a client with a callback ended on a non-200 response after
\* one request, with no callback invocation.
C7_Witness ==
    /\ onTokenExpired /\ renewCalls = 0 /\ renewToken = 0
    /\ \E c \in Callers :
          /\ call[c].kind = "fetch" /\ call[c].pc = "done"
          /\ call[c].out = "Non200" /\ call[c].nreq = 1

C8_Terminal ==
    \* a renewal is triggered by the token-expired status only
    /\ \A c \in Callers :
          (call[c].attempt = 1 /\ call[c].pc = "await")
          => call[c].trig.status = "TOKEN_EXPIRED"
    \* with a callback, fetch never fails on a first token-expired response
    /\ \A c \in Callers :
          (/\ call[c].kind = "fetch" /\ call[c].pc = "done" /\ onTokenExpired
           /\ call[c].errStatus = "TOKEN_EXPIRED") => call[c].nreq = 2
    \* without a callback nothing renews
    /\ ~onTokenExpired => renewCalls = 0 /\ \A c \in Callers : call[c].nreq <= 1
    \* the login call sends one request and any envelope error ends it
    /\ login.nreq <= 1
    /\ (login.pc = "done" /\ login.errStatus \in {"TOKEN_EXPIRED", "OTHER"})
       => login.out \in {"ErrorMessage", "UnknownError"} /\ login.nreq = 1
    /\ ~created => renewCalls = 0 /\ renewToken = 0

C9_SecondCallAlwaysRejected ==
    flowCalls >= 2 => last.out = "AlreadyCompleted"

\* C9 (amended): once a getSessionToken call has passed validation and
\* recorded its result, every later call fails with the already-completed
\* error whatever its arguments, and sends no request; a call after calls
\* that failed validation is handled like a first call.
C9_CompletedFlowRejects ==
    /\ [](/\ last.had => last.out = "AlreadyCompleted"
          /\ (flowCalls >= 1 /\ ~last.had) => last.out # "AlreadyCompleted")
    /\ [][(result.set /\ flowCalls' # flowCalls)
            => /\ last'.out = "AlreadyCompleted"
               /\ exchanges' = exchanges /\ exchange' = exchange
               /\ result' = result]_vars

\* A call with a valid code and state on a completed flow was rejected.
C9_Witness ==
    /\ flowCalls >= 2
    /\ last.had /\ last.out = "AlreadyCompleted"
    /\ last.args.form = "pair" /\ last.args.code = "code2"
    /\ last.args.state = FlowState

\* C10 as stated: the flow is completed only once an exchange has succeeded;
\* after a failed exchange it is still pending.
C10_CompletedOnlyAfterSuccess ==
    exchange.st \in {"AuthErrorResponse", "ErrorResponse", "Timeout"} => ~result.set

\* C10 (amended): the flow is completed from the step in which a call passes
\* validation, before the exchange request is answered and whatever its
\* outcome; the result is written once, and a flow sends at most one exchange
\* request.
C10_CompletedBeforeExchange ==
    /\ [](/\ result.set <=> exchanges = 1
          /\ exchanges <= 1
          /\ result.set <=> exchange.st # "none"
          /\ result.set => exchange.code = result.code /\ exchange.verifier = FlowVerifier)
    /\ [][/\ result.set => result' = result
          /\ exchanges' # exchanges => ~result.set /\ result'.set]_vars

\* The exchange failed, the flow is completed, and a later call with the same
\* valid arguments was rejected.
C10_Witness ==
    /\ exchange.st \in {"AuthErrorResponse", "ErrorResponse", "Timeout"}
    /\ result.set
    /\ last.out = "AlreadyCompleted"
    /\ last.args.code = result.code /\ last.args.state = FlowState

\* The call presents a state and it is not the flow's: the state argument of
\* the (code, state) form when one is given, the state parameter of the
\* query string (null when absent).
PresentsOtherState(a) ==
    \/ a.form = "pair" /\ a.state # "undefined" /\ a.state # FlowState
    \/ a.form = "params" /\ a.state # FlowState

\* C11: on a flow that is still pending, a getSessionToken call that presents
\* a state other than the flow's fails with the invalid-state error whatever
\* its other arguments, sends no request, and leaves the flow pending.
C11_InvalidStateFirst ==
    /\ []((flowCalls >= 1 /\ ~last.had /\ PresentsOtherState(last.args))
          => last.out = "InvalidState")
    /\ [][(/\ flowCalls' # flowCalls /\ ~result.set
           /\ PresentsOtherState(last'.args))
          => /\ last'.out = "InvalidState"
             /\ ~result'.set
             /\ exchanges' = exchanges /\ exchange' = exchange]_vars

\* A (code, state) call with a usable code and a null state, and a query
\* string with a wrong state and an error parameter, both end this way; here
\* the former, on a flow that has sent no request.
C11_Witness ==
    /\ last.out = "InvalidState" /\ ~last.had
    /\ last.args.form = "pair" /\ last.args.state = "null" /\ last.args.code = "code1"
    /\ ~result.set /\ exchanges = 0

\* C12: a flow sends at most one session_token request, whatever calls are
\* made and however they interleave with the request in flight: the step
\* that sends it finds result unset and sets it.
C12_AtMostOneExchange ==
    /\ [](exchanges <= 1 /\ (exchange.st = "none" <=> exchanges = 0))
    /\ [][exchanges' # exchanges
          => /\ exchanges = 0 /\ exchanges' = 1
             /\ ~result.set /\ result'.set
             /\ exchange.st = "none" /\ exchange'.st = "inflight"
             /\ exchange'.verifier = FlowVerifier]_vars

\* Two more calls with usable arguments were made while the one request was
\* in flight; the flow has sent that request only.
C12_Witness ==
    /\ flowCalls >= 3 /\ exchanges = 1 /\ exchange.st = "inflight"
    /\ last.out = "AlreadyCompleted"
    /\ last.args.form = "params" /\ last.args.state = FlowState
    /\ last.args.code = "code1" /\ ~last.args.error

\* C13: on a pending flow, a query string with the flow's state and an error
\* parameter makes getSessionToken throw the authorisation error whose code is
\* the error parameter and whose message is the error_description parameter,
\* both as given (the message is the code when there is no description),
\* without sending a request and whatever code the query string carries.
C13_AuthorisationDenied ==
    /\ [](last.out = "AuthorisationError"
          => /\ last.args.form = "params" /\ last.args.error
             /\ last.err.code = last.args.errorParam
             /\ last.err.message = IF last.args.description = "null"
                                   THEN last.args.errorParam
                                   ELSE last.args.description)
    /\ [][(/\ flowCalls' # flowCalls /\ ~result.set
           /\ last'.args.form = "params" /\ last'.args.error
           /\ last'.args.state = FlowState)
          => /\ last'.out = "AuthorisationError"
             /\ ~result'.set
             /\ exchanges' = exchanges /\ exchange' = exchange]_vars

\* A query string with a usable code, an empty error parameter and a
\* description was refused with exactly that code and message.
C13_Witness ==
    /\ last.out = "AuthorisationError" /\ exchanges = 0 /\ ~result.set
    /\ last.args.code = "code1"
    /\ last.args.errorParam = "" /\ last.args.description = "denied"
    /\ last.err = [code |-> "", message |-> "denied"]

\* No usable code: session_token_code absent from the query string, a code
\* argument that is null or no string ("null"), or the empty string.
NoUsableCode(a) == a.code \in {"null", ""}

\* C14: a getSessionToken call with no usable code never sends a request and
\* leaves the flow as it is; when it passes the checks made before the code
\* check (pending flow, no other state presented, no error parameter) the
\* error it throws is the invalid-code error.
C14_InvalidCode ==
    /\ [](/\ exchange.st # "none" => exchange.code \in {"code1", "code2"}
          /\ (flowCalls >= 1 /\ NoUsableCode(last.args))
             => last.out \in {"AlreadyCompleted", "InvalidState",
                              "AuthorisationError", "InvalidCode"})
    /\ [][(flowCalls' # flowCalls /\ NoUsableCode(last'.args))
          => /\ result' = result
             /\ exchanges' = exchanges /\ exchange' = exchange
             /\ (/\ ~result.set /\ ~PresentsOtherState(last'.args)
                 /\ ~last'.args.error)
                => last'.out = "InvalidCode"]_vars

\* A query string with the flow's state and no session_token_code, and a
\* (code, state) call with an empty code, end with the invalid-code error on
\* a flow that stays pending; here the latter.
C14_Witness ==
    /\ last.out = "InvalidCode" /\ ~result.set /\ exchanges = 0
    /\ last.args.form = "pair" /\ last.args.code = "" /\ last.args.state = FlowState

\* C15 as stated: the token changes only in a step taken while the pending
\* marker is set.
C15_WrittenOnlyUnderMarker ==
    [][token' # token => renewToken # 0]_vars

\* The then handler of the pending renewal p runs on the data its callback
\* returned.
CommitStep(p) ==
    /\ renewToken = p /\ renewToken' = p
    /\ promise[p].st = "cb" /\ promise'[p].st = "then" /\ promise'[p].res = "data"
    /\ call' = call

\* The renewToken call c gets its credential and stores it.
RenewTokenStep(c) ==
    /\ call[c].kind = "renew" /\ call[c].pc = "net"
    /\ call'[c].pc = "done" /\ call'[c].out = "ok"
    /\ \A d \in Callers \ {c} : call'[d] = call[d]
    /\ promise' = promise /\ renewToken' = renewToken

\* C15 (amended): the token is written by two operations only, each in one
\* synchronous step: the then handler of the single-flight renewal, while the
\* marker names that renewal, and renewToken, whether or not a renewal is
\* pending; no step is both, and fetch, getWebServiceToken, the finally
\* handler and the resumption of waiters never write it.
C15_TokenWriters ==
    [][token' # token
       => /\ (\E p \in Promises : CommitStep(p)) \/ (\E c \in Callers : RenewTokenStep(c))
          /\ ~((\E p \in Promises : CommitStep(p)) /\ (\E c \in Callers : RenewTokenStep(c)))]_vars

\* renewToken stored a credential on a client that never renewed through the
\* marker.
C15_Witness ==
    /\ tokenBy = "renewToken" /\ token # 0
    /\ renewCalls = 0 /\ renewToken = 0
    /\ \E c \in Callers : call[c].kind = "renew" /\ call[c].pc = "done" /\ call[c].out = "ok"

\* C16: when every request, f call and callback invocation settles, every
\* fetch and getWebServiceToken call ends, returning or throwing, after at
\* most two requests; in particular none stays at `await this._renewToken`.
C16_CallsTerminate ==
    /\ [](\A c \in Callers : call[c].nreq <= 2)
    /\ \A c \in Callers :
          (call[c].kind \in {"fetch", "gwst"}) ~> (call[c].pc = "done")
    /\ \A c \in Callers : (call[c].pc = "await") ~> (call[c].pc # "await")

\* Against a service that answered token-expired every time, a fetch call
\* and a getWebServiceToken call have both ended after two requests each.
C16_Witness ==
    \E c, d \in Callers :
        /\ call[c].kind = "fetch" /\ call[d].kind = "gwst"
        /\ \A x \in {c, d} :
              /\ call[x].pc = "done" /\ call[x].nreq = 2
              /\ call[x].errStatus = "TOKEN_EXPIRED"

\* C17: every error that fetch, loginWithSessionToken,
\* getNintendoAccountSessionToken, getNintendoAccountToken or
\* getNintendoAccountUser raises for a response it received with a non-200
\* status or an error envelope carries that response and its body, as text
\* or decoded; on such a response none of them returns normally, and the
\* only one that does not throw is fetch on the token-expired envelope it
\* answers by renewing and retrying.
NonSuccess(r) ==
    \/ r.resp.http # 200
    \/ /\ r.fn \in {"fetch", "loginWithSessionToken"}
       /\ r.resp.msg \/ r.resp.status # "OK"
    \/ /\ r.fn \in {"getNintendoAccountSessionToken", "getNintendoAccountToken"}
       /\ r.resp.body.error # "absent" \/ r.resp.body.errorCode
    \/ /\ r.fn = "getNintendoAccountUser"
       /\ r.resp.body.errorCode

C17_ErrorsCarryResponse ==
    /\ reply.out = "throw" =>
          /\ reply.err.response = reply.resp
          /\ reply.err.body \in {Text(reply.resp), Json(reply.resp)}
    /\ (reply.fn # "none" /\ NonSuccess(reply)) =>
          /\ reply.out # "return"
          /\ reply.out = "renew" =>
                /\ reply.fn = "fetch"
                /\ reply.resp.http = 200 /\ reply.resp.status = "TOKEN_EXPIRED"
                /\ reply.args = [auto |-> TRUE, attempt |-> 0, cb |-> TRUE]
    /\ (reply.fn # "none" /\ ~NonSuccess(reply)) => reply.out = "return"

\* getNintendoAccountUser threw for a 200 response with an errorCode member
C17_Witness ==
    /\ reply.fn = "getNintendoAccountUser"
    /\ reply.resp.http = 200 /\ reply.resp.body.errorCode
    /\ reply.out = "throw"
    /\ reply.err.response = reply.resp
    /\ reply.err.body = Json(reply.resp)

\* C18: an error raised by the identity provider's functions carries the
\* na.invalid_grant description, which tells the user to sign in again,
\* exactly when it is a NintendoAccountAuthErrorResponse whose data has
\* error = invalid_grant; every other error carries no description.
C18_InvalidGrantDescription ==
    reply.out = "throw" =>
      /\ reply.description.key = "na.invalid_grant" <=>
            /\ reply.err.class = "NintendoAccountAuthErrorResponse"
            /\ reply.err.data.error = "invalid_grant"
      /\ reply.description.key # "na.invalid_grant" => reply.description = NoDescription

\* getNintendoAccountToken threw for a 200 response with error = invalid_grant
C18_Witness ==
    /\ reply.fn = "getNintendoAccountToken"
    /\ reply.out = "throw"
    /\ reply.resp.http = 200
    /\ reply.err.data.error = "invalid_grant"
    /\ reply.description.key = "na.invalid_grant"

\* C19: for a flow made by create, the challenge in the authorize URL is
\* base64url(sha256(verifier)) of the verifier the flow holds and sends in
\* every session_token exchange, the challenge method is S256, and the state
\* in the URL is the state the flow holds and a presented state has to equal
\* for the call to go on to the exchange.
C19_ChallengeMatchesVerifier ==
    flow.created =>
      /\ flow.authorise_url.session_token_code_challenge = Base64Url(Sha256(flow.verifier))
      /\ flow.authorise_url.session_token_code_challenge # flow.verifier
      /\ flow.authorise_url.session_token_code_challenge_method = "S256"
      /\ flow.authorise_url.state = flow.state
      /\ exchange.st # "none" =>
            /\ exchange.verifier = flow.verifier
            /\ Base64Url(Sha256(exchange.verifier)) =
                  flow.authorise_url.session_token_code_challenge
      /\ (last.out = "exchange" /\ last.args.state # "undefined") =>
            last.args.state = flow.authorise_url.state

\* a callback presenting the URL's state was accepted and the exchange sent
\* the verifier behind the URL's challenge
C19_Witness ==
    /\ flow.created /\ flow.state = "Ag" /\ flow.verifier = "AQ"
    /\ flow.authorise_url.session_token_code_challenge = "Aw"
    /\ last.out = "exchange" /\ last.args.form = "params" /\ last.args.state = "Ag"
    /\ exchange.st = "ok" /\ exchange.verifier = "AQ"

\* C20 as stated: whenever the retry of a fetch request that saw
\* token-expired is sent, the renewal it awaited has replaced the token, and
\* the retry carries the token that renewal installed.
RetrySent(c) ==
    /\ call[c].kind = "fetch" /\ call[c].attempt = 1
    /\ call[c].pc = "await" /\ call'[c].pc = "net"

C20_RetryCarriesRenewedToken ==
    [][\A c \in Callers :
          RetrySent(c) =>
            /\ promise[call[c].join].res = "data"
            /\ token # promise[call[c].join].pre
            /\ tokenBy = "then"
            /\ call'[c].tok = token]_vars

\* C20: a fetch call whose first attempt saw token-expired awaits the
\* renewal promise, and its retry is sent only in the step in which that
\* promise fulfils: after the callback settled without failing, then the then
\* handler ran (storing the credential if the callback returned one), then
\* the finally handler cleared the marker. A rejected promise sends no retry.
\* The retry carries the token current when it is sent: a token newer than
\* the one the renewal began with if the callback returned a credential.
C20_RetryAfterRenewalSettled ==
    /\ [](\A p \in Promises :
            /\ promise[p].st \in {"cb", "then"} => renewToken = p
            /\ promise[p].st \in {"fin", "done"} => renewToken # p
            /\ promise[p].st = "cb" => promise[p].res = "none"
            /\ promise[p].st \in {"then", "fin", "done"} => promise[p].res # "none")
    /\ [](\A c \in Callers :
            (call[c].kind = "fetch" /\ call[c].attempt = 1 /\ call[c].pc = "net") =>
              /\ promise[call[c].join].st = "done"
              /\ promise[call[c].join].res \in {"data", "void"}
              /\ call[c].nreq = 2)
    /\ [][\A c \in Callers :
            /\ RetrySent(c) =>
                  /\ promise[call[c].join].st = "fin"
                  /\ promise'[call[c].join].st = "done"
                  /\ promise[call[c].join].res \in {"data", "void"}
                  /\ renewToken # call[c].join
                  /\ call'[c].tok = token /\ token' = token
                  /\ promise[call[c].join].res = "data" =>
                        call'[c].tok # promise[call[c].join].pre
            /\ (/\ call[c].kind = "fetch" /\ call[c].attempt = 1 /\ call[c].pc = "await"
                /\ promise[call[c].join].st = "fin" /\ promise'[call[c].join].st = "done"
                /\ promise[call[c].join].res = "fail") =>
                  /\ call'[c].pc = "done" /\ call'[c].out = "RenewFailed"
                  /\ call'[c].nreq = call[c].nreq
            /\ \A p \in Promises :
                  (promise[p].st = "cb" /\ promise'[p].st = "then"
                   /\ promise'[p].res = "data") =>
                     token' # token /\ renewToken = p /\ renewToken' = p]_vars

\* a leader's and a joiner's retry are in flight after their renewal stored
\* a credential and the marker was cleared
C20_Witness ==
    /\ renewToken = 0 /\ cleared = 1 /\ tokenBy = "then" /\ token # 0
    /\ \E c, d \in Callers :
          /\ c # d
          /\ \A x \in {c, d} :
                /\ call[x].kind = "fetch" /\ call[x].attempt = 1 /\ call[x].pc = "net"
                /\ call[x].join = 1 /\ call[x].tok = token
          /\ promise[1].st = "done" /\ promise[1].res = "data"

\* C21: _renewToken is non-null exactly while an invocation of onTokenExpired
\* is unsettled or its then handler has just run, and then it is that
\* invocation's promise. It is set in the step that invokes the callback and
\* in no other; it is cleared by that promise's finally handler, whether
\* the callback returned a credential, nothing or failed, and by nothing
\* else, so a clear never removes a later renewal's marker.
Unsettled == {p \in Promises : promise[p].st \in {"cb", "then"}}

C21_MarkerTracksRenewal ==
    /\ [](/\ renewToken # 0 <=> Unsettled # {}
          /\ renewToken # 0 => Unsettled = {renewToken}
          /\ cleared = Cardinality({p \in Promises : promise[p].st \in {"fin", "done"}}))
    /\ [][/\ renewCalls' # renewCalls <=> (renewToken = 0 /\ renewToken' # 0)
          /\ renewCalls' # renewCalls =>
                /\ renewCalls' = renewCalls + 1
                /\ renewToken' = renewCalls'
                /\ promise[renewToken'].st = "none" /\ promise'[renewToken'].st = "cb"
          /\ (renewToken # 0 /\ renewToken' # renewToken) =>
                /\ renewToken' = 0
                /\ promise[renewToken].st = "then" /\ promise'[renewToken].st = "fin"
                /\ promise[renewToken].res \in {"data", "void", "fail"}
          /\ \A p \in Promises :
                (promise[p].st = "then" /\ promise'[p].st = "fin") =>
                   renewToken = p /\ renewToken' = 0]_vars

\* a renewal whose callback failed was cleared, and a later expiry signal
\* started the next renewal
C21_Witness ==
    /\ promise[1].st = "done" /\ promise[1].res = "fail"
    /\ cleared = 1 /\ renewCalls = 2
    /\ renewToken = 2 /\ promise[2].st = "cb"

\* C22: a token-expired response to a request whose token a completed
\* renewal has already replaced does not invoke onTokenExpired again.
StaleResponse(c) ==
    /\ call[c].pc = "net" /\ call[c].kind \in {"fetch", "gwst"}
    /\ call[c].tok # token /\ tokenBy = "then"
    /\ call'[c] # call[c]

C22_NoRenewalForReplacedToken ==
    [][\A c \in Callers : StaleResponse(c) => renewCalls' = renewCalls]_vars

\* C23: every getSessionToken call that goes on to the session-token
\* exchange has compared a state its caller presented with the flow's state
\* and found them equal.
C23_StateAlwaysValidated ==
    last.out = "exchange" =>
      /\ last.args.state # "undefined"
      /\ last.args.state = FlowState

\* C24: whenever the flow is completed, the state recorded in its result is
\* the flow's own state.
C24_ResultStateIsFlowState ==
    result.set => result.state = FlowState

\* C25: a renewToken call goes through getNintendoAccountToken, then f, then
\* the GetToken request, in that order and each at most once, and through
\* nothing else (no profile fetch, no wait for a pending renewal); it writes
\* the token only in the step in which that request is answered with
\* success; when a step fails the call ends there, sends nothing further and
\* leaves the token as it is.
C25_Step(c) ==
    LET r == call[c]
        n == call'[c]
    IN  /\ n.pc # r.pc =>
              \/ r.pc = "idle" /\ n.pc = "nat" /\ n.nreq = 0
              \/ r.pc = "nat" /\ n.pc = "f" /\ n.nreq = 0
              \/ r.pc = "f" /\ n.pc = "net" /\ n.nreq = 1
              \/ /\ r.pc = "nat" /\ n.pc = "done" /\ n.out = "NaError"
                 /\ n.nreq = 0 /\ token' = token
              \/ /\ r.pc = "f" /\ n.pc = "done" /\ n.out = "FError"
                 /\ n.nreq = 0 /\ token' = token
              \/ /\ r.pc = "net" /\ n.pc = "done" /\ n.nreq = 1
                 /\ n.out \in {"ok", "Non200", "ErrorMessage", "UnknownError"}
                 /\ n.out # "ok" => token' = token
                 /\ n.out = "ok" => token' = NextCred /\ tokenBy' = "renewToken"
        /\ n.pc = r.pc => n = r

C25_RenewTokenOrder ==
    /\ [](\A c \in Callers :
            call[c].kind = "renew" =>
              /\ call[c].pc \in {"nat", "f", "net", "done"}
              /\ call[c].nreq <= 1 /\ call[c].attempt = 0 /\ call[c].join = 0)
    /\ [][/\ \A c \in Callers : call'[c].kind = "renew" => C25_Step(c)
          /\ tokenBy' = "renewToken" /\ token' # token =>
                \E c \in Callers :
                  /\ call[c].kind = "renew" /\ call[c].pc = "net" /\ call[c].nreq = 1
                  /\ call'[c].pc = "done" /\ call'[c].out = "ok"]_vars

\* one renewToken call stored the credential of its GetToken request, and
\* another failed at the device proof without sending a request
C25_Witness ==
    \E c, d \in Callers :
      /\ call[c].kind = "renew" /\ call[c].pc = "done" /\ call[c].out = "ok"
      /\ call[c].nreq = 1 /\ tokenBy = "renewToken" /\ token = minted
      /\ call[d].kind = "renew" /\ call[d].pc = "done" /\ call[d].out = "FError"
      /\ call[d].nreq = 0

\* C26: loginWithSessionToken makes its external calls in the order
\* getNintendoAccountToken, getNintendoAccountUser, f, /v3/Account/Login; a
\* failure of one ends the call with that failure and none of the later
\* calls is made; it returns a bundle only when all four were made and the
\* login request was answered 200 with status OK.
LoginOrder == <<"nat", "user", "f", "net">>

C26_LoginOrder ==
    /\ [](/\ Len(login.steps) <= 4
          /\ login.steps = SubSeq(LoginOrder, 1, Len(login.steps))
          /\ login.nreq = (IF Len(login.steps) = 4 THEN 1 ELSE 0)
          /\ login.pc \in {"nat", "user", "f", "net"} =>
                login.steps # <<>> /\ login.steps[Len(login.steps)] = login.pc
          /\ login.out = "NaError" => login.steps = SubSeq(LoginOrder, 1, 1)
          /\ login.out = "UserError" => login.steps = SubSeq(LoginOrder, 1, 2)
          /\ login.out = "FError" => login.steps = SubSeq(LoginOrder, 1, 3)
          /\ login.out \in {"Non200", "ErrorMessage", "UnknownError"} =>
                /\ login.steps = LoginOrder
                /\ login.resp.http # 200 \/ login.resp.msg \/ login.resp.status # "OK"
          /\ login.out = "ok" =>
                /\ login.pc = "done" /\ login.steps = LoginOrder
                /\ login.resp.http = 200 /\ login.resp.status = "OK")
    /\ [][/\ login.pc = "done" => login' \in {login, IdleLogin}
          /\ (created' /\ ~created) => login.pc = "idle" \/ login.out = "ok"]_vars

\* a login failed at the device proof after the two identity calls, with no
\* request sent
C26_Witness ==
    /\ login.pc = "done" /\ login.out = "FError"
    /\ login.steps = <<"nat", "user", "f">> /\ login.nreq = 0

\* C27: when the remote configuration has no coral entry, the login fails
\* with the configuration error at once: no identity call, no device proof
\* and no request has been made; with the entry present it never fails that
\* way.
C27_ConfigCheckedFirst ==
    /\ (login.pc # "idle" /\ ~login.config) =>
          /\ login.pc = "done" /\ login.out = "ConfigError"
          /\ login.steps = <<>> /\ login.nreq = 0
    /\ login.out = "ConfigError" => ~login.config /\ login.steps = <<>>
    /\ login.steps # <<>> => login.config

\* a login was refused by the remote configuration
C27_Witness ==
    /\ ~created /\ login.pc = "done" /\ ~login.config
    /\ login.out = "ConfigError" /\ login.steps = <<>>

\* C28: every error raised while a web service is opened from the tray menu
\* is passed to handleOpenWebServiceError.
C28_OpenErrorsReachHandler ==
    menu.last.err # "none" => menu.last.handled

\* C29: the request getWebServiceToken sends carries, as its bearer token,
\* the token its device proof was computed from.
C29_ProofMatchesBearer ==
    [][\A c \in Callers :
          (call[c].kind = "gwst" /\ call[c].pc = "f" /\ call'[c].pc = "net")
          => call[c].proof = call'[c].tok]_vars

\* C30 as stated: the request of a fetch call that waited for a pending
\* renewal at its start is sent with a refreshed token, one that differs
\* from the token the client had when the renewal began.
WaiterSends(c) ==
    /\ call[c].kind = "fetch" /\ call[c].attempt = 0
    /\ call[c].pc = "await" /\ call'[c].pc = "net"

C30_WaiterSendsRefreshedToken ==
    [][\A c \in Callers :
          WaiterSends(c) => call'[c].tok # promise[call[c].join].pre]_vars

\* C30: a fetch call with auto-renew that starts while a renewal is pending
\* sends no request until that renewal's promise settles. If the promise
\* fulfils, its request is sent in that step with the token current then:
\* a token newer than the one the renewal began with if the callback
\* returned a credential. If it rejects, the call fails with the renewal's
\* failure and has sent no request.
C30_WaiterFollowsRenewal ==
    /\ [](\A c \in Callers :
            (call[c].kind = "fetch" /\ call[c].attempt = 0 /\ call[c].pc = "await") =>
              /\ call[c].nreq = 0
              /\ call[c].join \in Promises
              /\ promise[call[c].join].st \in {"cb", "then", "fin"})
    /\ [][/\ \A c \in Callers :
               (created /\ call[c].pc = "idle" /\ call'[c].kind = "fetch") =>
                 IF renewToken # 0
                 THEN call'[c].pc = "await" /\ call'[c].join = renewToken /\ call'[c].nreq = 0
                 ELSE call'[c].pc = "net" /\ call'[c].nreq = 1 /\ call'[c].tok = token
          /\ \A c \in Callers :
               (/\ call[c].kind = "fetch" /\ call[c].attempt = 0 /\ call[c].pc = "await"
                /\ call'[c] # call[c]) =>
                 /\ promise[call[c].join].st = "fin" /\ promise'[call[c].join].st = "done"
                 /\ IF promise[call[c].join].res = "fail"
                    THEN /\ call'[c].pc = "done" /\ call'[c].out = "RenewFailed"
                         /\ call'[c].nreq = 0
                    ELSE /\ call'[c].pc = "net" /\ call'[c].nreq = 1
                         /\ call'[c].tok = token /\ token' = token
                         /\ promise[call[c].join].res = "data" =>
                               call'[c].tok # promise[call[c].join].pre]_vars

\* a fetch call that started while a renewal was pending failed with the
\* renewal's failure, having sent no request
C30_Witness ==
    \E c \in Callers :
      /\ call[c].kind = "fetch" /\ call[c].pc = "done" /\ call[c].out = "RenewFailed"
      /\ call[c].nreq = 0
      /\ promise[call[c].join].st = "done" /\ promise[call[c].join].res = "fail"

\* C31: a request sent with auto-renew disabled, as the GetToken request of
\* renewToken is, never waits for the pending marker: the call is never
\* suspended on a renewal promise and sends its request in the step in which
\* f returns, whether or not a renewal is pending. The answer to that request
\* never starts a renewal: the marker, the promises and the number of
\* callback invocations stay as they are, and a token-expired envelope ends
\* the call with the error. So a renewToken call made while a renewal is
\* pending, as one made by the renewal callback is, completes while that
\* renewal is still pending.
C31_Answer(c) ==
    /\ call'[c].pc = "done"
    /\ renewToken' = renewToken /\ promise' = promise /\ renewCalls' = renewCalls
    /\ call'[c].errStatus = "TOKEN_EXPIRED" =>
          call'[c].out \in {"ErrorMessage", "UnknownError"} /\ token' = token

C31_NoAutoRenewNeverWaits ==
    /\ [](\A c \in Callers :
            call[c].kind = "renew" => call[c].pc # "await" /\ call[c].join = 0)
    /\ [][\A c \in Callers :
            call[c].kind = "renew" =>
              /\ call[c].pc = "f" /\ call'[c].pc \notin {"f", "done"} =>
                    call'[c].pc = "net" /\ call'[c].tok = token
              /\ call[c].pc = "net" /\ call'[c] # call[c] => C31_Answer(c)]_vars

\* a renewal callback is still running, the marker is set and a caller waits
\* on it, while a renewToken call has sent its request and was refused with
\* a token-expired envelope
C31_Witness ==
    \E c, d \in Callers : \E p \in Promises :
      /\ renewToken = p /\ promise[p].st = "cb"
      /\ call[d].pc = "await" /\ call[d].join = p
      /\ call[c].kind = "renew" /\ call[c].pc = "done" /\ call[c].nreq = 1
      /\ call[c].errStatus = "TOKEN_EXPIRED"

\* C32: when the renewal callback resolves without data, the then handler
\* leaves the token (and what wrote it last) as it is; the finally handler
\* still clears the marker, so that a promise whose finally handler ran is
\* never the marker; and when the promise settles every caller waiting on it
\* goes on in that step with the token current then: a fetch caller sends
\* its request with it, a getWebServiceToken caller starts its device proof
\* from it. No caller sends more than two requests.
C32_VoidStep(p) ==
    /\ promise[p].st = "cb" /\ promise'[p].st = "then" /\ promise'[p].res = "void" =>
          token' = token /\ tokenBy' = tokenBy /\ minted' = minted
    /\ promise[p].st = "then" /\ promise[p].res = "void" /\ promise'[p] # promise[p] =>
          promise'[p].st = "fin" /\ renewToken' = 0
    /\ promise[p].st = "fin" /\ promise[p].res = "void" /\ promise'[p] # promise[p] =>
          /\ promise'[p].st = "done" /\ token' = token
          /\ \A c \in Callers :
               call[c].pc = "await" /\ call[c].join = p =>
                 /\ call'[c].attempt = call[c].attempt
                 /\ call[c].kind = "fetch" =>
                       /\ call'[c].pc = "net" /\ call'[c].tok = token'
                       /\ call'[c].nreq = call[c].nreq + 1
                 /\ call[c].kind = "gwst" =>
                       /\ call'[c].pc = "f" /\ call'[c].proof = token'
                       /\ call'[c].nreq = call[c].nreq

C32_VoidCallbackStillResumes ==
    /\ [](/\ \A p \in Promises : promise[p].st \in {"fin", "done"} => renewToken # p
          /\ \A c \in Callers : call[c].nreq <= 2 /\ call[c].attempt <= 1)
    /\ [][\A p \in Promises : C32_VoidStep(p)]_vars

\* the callback resolved without data and its promise settled: the marker is
\* null, the token is the one the client was constructed with, and a fetch
\* caller that renewed has sent its second request with that token
C32_Witness ==
    \E c \in Callers : \E p \in Promises :
      /\ promise[p].st = "done" /\ promise[p].res = "void"
      /\ renewToken = 0 /\ token = 0 /\ tokenBy = "constructor"
      /\ call[c].kind = "fetch" /\ call[c].attempt = 1 /\ call[c].join = p
      /\ call[c].pc = "net" /\ call[c].nreq = 2 /\ call[c].tok = 0

\* The arguments fail validation: another state than the flow's is presented,
\* the query string has an error parameter, or there is no usable code.
C33_FailsValidation(a) ==
    \/ PresentsOtherState(a)
    \/ a.form = "params" /\ a.error
    \/ NoUsableCode(a)

\* C33: on a pending flow, a getSessionToken call whose arguments fail
\* validation throws one of the three validation errors, leaves result null
\* and the exchange untouched and sends no request; and a call whose
\* arguments pass, made on a flow that is still pending after any number of
\* such calls, records the result and sends the one exchange request.
C33_FailedCallLeavesFlowPending ==
    /\ []((flowCalls >= 1 /\ ~result.set) =>
             /\ exchanges = 0 /\ exchange = NoExchange /\ result = NullResult
             /\ last.out \in {"InvalidState", "AuthorisationError", "InvalidCode"})
    /\ [][(flowCalls' # flowCalls /\ ~result.set) =>
             IF C33_FailsValidation(last'.args)
             THEN /\ last'.out \in {"InvalidState", "AuthorisationError", "InvalidCode"}
                  /\ result' = result /\ exchange' = exchange
                  /\ exchanges' = exchanges
             ELSE /\ last'.out = "exchange"
                  /\ result'.set /\ result'.code = last'.args.code
                  /\ exchanges' = exchanges + 1
                  /\ exchange'.st = "inflight"
                  /\ exchange'.code = last'.args.code]_vars

\* the third call on the flow performed the exchange: the two calls before it
\* failed validation, since the flow has sent one request only and was
\* pending when the third call was made
C33_Witness ==
    /\ flowCalls = 3 /\ exchanges = 1
    /\ last.out = "exchange" /\ ~last.had
    /\ result.set /\ result.code = last.args.code
    /\ last.args.form = "params" /\ last.args.state = FlowState
    /\ exchange.st = "inflight"

\* C34: on a client without a renewal callback the marker is never set and
\* the callback count stays zero; a fetch or getWebServiceToken call never
\* waits, never retries and sends one request at most; the answer to that
\* request ends the call in the same step and leaves the token as it is, and
\* a token-expired envelope ends it with an error.
C34_Answer(c) ==
    /\ call'[c].pc = "done" /\ call'[c].nreq = 1
    /\ token' = token /\ tokenBy' = tokenBy
    /\ renewToken' = 0 /\ renewCalls' = 0
    /\ call'[c].errStatus = "TOKEN_EXPIRED" =>
          call'[c].out \in {"ErrorMessage", "UnknownError"}

C34_NoCallbackRaises ==
    /\ []((created /\ ~onTokenExpired) =>
             /\ renewToken = 0 /\ renewCalls = 0
             /\ \A p \in Promises : promise[p] = NoPromise
             /\ \A c \in Callers :
                  call[c].kind \in {"fetch", "gwst"} =>
                    /\ call[c].pc # "await" /\ call[c].attempt = 0 /\ call[c].join = 0
                    /\ call[c].nreq <= 1
                    /\ call[c].out = "ok" => call[c].errStatus = "none")
    /\ [][(created /\ ~onTokenExpired) =>
             \A c \in Callers :
               (/\ call[c].kind \in {"fetch", "gwst"} /\ call[c].pc = "net"
                /\ call'[c] # call[c]) => C34_Answer(c)]_vars

\* without a callback, a fetch call and a getWebServiceToken call were both
\* answered with a token-expired envelope and raised it after one request;
\* the marker is null and the token is the constructor's
C34_Witness ==
    \E c, d \in Callers :
      /\ created /\ ~onTokenExpired /\ renewToken = 0 /\ token = 0
      /\ call[c].kind = "fetch" /\ call[c].pc = "done" /\ call[c].nreq = 1
      /\ call[c].errStatus = "TOKEN_EXPIRED" /\ call[c].out = "UnknownError"
      /\ call[d].kind = "gwst" /\ call[d].pc = "done" /\ call[d].nreq = 1
      /\ call[d].errStatus = "TOKEN_EXPIRED" /\ call[d].out = "ErrorMessage"

\* the i-th web service of the fetched list is the first whose id, written
\* in decimal, is the requested id
C35_Found(i) ==
    /\ i \in 1..Len(command.webservices)
    /\ IdToString(command.webservices[i].id) = command.id
    /\ \A j \in 1..(i - 1) : IdToString(command.webservices[j].id) # command.id

\* the verifyMembership attribute of a web service is 'true'
C35_MembershipRequired(w) ==
    \E k \in 1..Len(w.customAttributes) :
      /\ w.customAttributes[k] = [attrKey |-> "verifyMembership", attrValue |-> "true"]
      /\ \A j \in 1..(k - 1) : w.customAttributes[j].attrKey # "verifyMembership"

\* C35: the webservicetoken command calls getWebServiceToken at most once,
\* and only when the web service list was fetched, the requested id is the
\* id of one of its web services, which is the one the token is requested
\* for, and that web service either does not have verifyMembership 'true' or
\* the membership is active. Once the list is fetched, a requested id that
\* is not in it ends the command with the invalid-web-service error, and an
\* inactive membership for a web service that requires one ends it with the
\* membership error, in both cases without a getWebServiceToken call.
C35_TokenOnlyAfterChecks ==
    /\ command.calls <= 1
    /\ command.calls = 0 <=> command.requested = 0
    /\ command.calls = 1 =>
          /\ command.fetched
          /\ \E i \in 1..Len(command.webservices) :
               /\ C35_Found(i)
               /\ command.requested = command.webservices[i].id
               /\ C35_MembershipRequired(command.webservices[i]) => command.active
    /\ command.pc = "getWebServiceToken" => command.calls = 1
    /\ command.out = "ok" => command.calls = 1
    /\ (command.fetched /\ ~\E i \in 1..Len(command.webservices) : C35_Found(i)) =>
          /\ command.pc = "done" /\ command.out = "Invalid web service"
          /\ command.calls = 0
    /\ \A i \in 1..Len(command.webservices) :
         (/\ command.fetched /\ C35_Found(i)
          /\ C35_MembershipRequired(command.webservices[i]) /\ ~command.active) =>
            /\ command.pc = "done" /\ command.out = "MembershipRequiredError"
            /\ command.calls = 0

\* the requested web service is the second of the list and requires a
\* membership, which is active: the token was requested for it and printed
C35_Witness ==
    /\ command.pc = "done" /\ command.out = "ok" /\ command.calls = 1
    /\ command.id = "2" /\ command.requested = 2 /\ command.active
    /\ Len(command.webservices) = 2
    /\ command.webservices[1].id = 1 /\ command.webservices[2].id = 2
    /\ Len(command.webservices[2].customAttributes) = 2
    /\ C35_MembershipRequired(command.webservices[2])

====
